---- MODULE Spec2Model ----
(***************************************************************************)
(* Model of src/src/mains/RegageMetalls.py: the batch loop                 *)
(* procesar_multiple_regages, the per-record session procesar_registro,    *)
(* the authentication protocol autenticar_y_seleccionar_certificado and    *)
(* the download step descargar_documentos.  External collaborators         *)
(* (webConfiguration, webFunctions, certHandler, downloadFunctions, the    *)
(* file system) are nondeterministic: every call either returns or raises. *)
(***************************************************************************)
EXTENDS Integers, Sequences, FiniteSets, TLC

(* ------------------------------ bounds --------------------------------- *)
\* Largest number of entries listed in the output directory.
MaxCarpetas == 2
\* Largest number of files in the containers of a run.
MaxArchivos == 2
\* Largest value of the parameter max_registros tried.
MaxRegistros == 2
\* Cap put on the 5000-attempt loops of procesar_registro.
CapIntentos == 2
\* Cap put on the 100-attempt loop of autenticar_y_seleccionar_certificado.
CapIntentosCert == 2
\* Largest length of an identifier handed to get_linkMiteco.
MaxLargoId == 2
\* Largest number of calls of get_linkMiteco followed with the same arguments.
MaxLlamadasLink == 2

(* ------------------------- program constants --------------------------- *)
max_intentos == 5000
max_intentos_auth == 5000
max_intentos_cert == 100
numDownloads == 2

\* A ceiling of the source, cut to the cap of the model.
Tope(n, cap) == IF n <= cap THEN n ELSE cap
TopeAbrir == Tope(max_intentos, CapIntentos)
TopeAuth == Tope(max_intentos_auth, CapIntentos)
TopeCert == Tope(max_intentos_cert, CapIntentosCert)

(* ------------------------------ values --------------------------------- *)
\* A driver variable that holds no handle; handles are 1, 2, ...
None == 0
\* File names: <<stem, extension>>.
Nombres == << <<"a", ".json">>, <<"b", ".JSON">>, <<"n", ".txt">> >>
\* str.lower() on the extensions that occur.
Lower(s) == IF s = ".JSON" THEN ".json" ELSE s
\* f.lower().endswith('.json')
EsJson(nombre) == Lower(nombre[2]) = ".json"

\* Values the key nombre_productor / nombre_residuo can have in a record:
\* missing, not a string, or a string (a sequence of characters).
Ausente == [tipo |-> "ausente", s |-> << >>]
NoStr == [tipo |-> "noStr", s |-> << >>]
Str(s) == [tipo |-> "str", s |-> s]
ValoresProductor == {Ausente, NoStr, Str(<<"P", " ", "1">>)}
ValoresResiduo == {NoStr, Str(<<"R", "*">>)}
NoMapping == [mapping |-> FALSE, nombre_productor |-> Ausente, nombre_residuo |-> Ausente]
Registros == {NoMapping} \cup
             [mapping : {TRUE}, nombre_productor : ValoresProductor,
              nombre_residuo : ValoresResiduo]

\* registro.get(key, "desconocido")
GetNombre(v) == IF v.tipo = "ausente" THEN <<"desconocido">> ELSE v.s
\* str.replace(" ", "_")
ReplaceEspacios(s) == [i \in DOMAIN s |-> IF s[i] = " " THEN "_" ELSE s[i]]
\* registro.get("nombre_productor", "desconocido").replace(" ", "_")
NombreProductor(reg) == ReplaceEspacios(GetNombre(reg.nombre_productor))
\* The field extraction raises AttributeError when the record has no .get
\* or a name has no .replace.
CamposRaise(reg) == \/ ~reg.mapping
                    \/ reg.nombre_productor.tipo = "noStr"
                    \/ reg.nombre_residuo.tipo = "noStr"

\* Exception classes told apart by the handlers of procesar_registro.
Clases == {"Timeout", "WebDriver", "Otra"}
\* The log code of the except clause that catches an exception of class c.
CodigoExcept(c) == IF c = "Timeout" THEN "ERR-08"
                   ELSE IF c = "WebDriver" THEN "ERR-09" ELSE "ERR-10"

Codigos == {"INFO-05", "WARN-01", "WARN-02", "WARN-03", "WARN-04",
            "ERR-01", "ERR-02", "ERR-03", "ERR-04", "ERR-05", "ERR-06",
            "ERR-07", "ERR-08", "ERR-09", "ERR-10", "ERR-11",
            "ERR-12", "ERR-13", "ERR-14", "ERR-15"}
Bucles == {"open", "auth", "reopen", "cert"}

\* Directories: a container of output, or a partition of trash.
DirOutput(c) == [raiz |-> "output", carpeta |-> c, particion |-> << >>]
DirTrash(p) == [raiz |-> "trash", carpeta |-> 0, particion |-> p]
\* Where a file is that was replaced by another one moved onto it.
Perdido == [raiz |-> "perdido", carpeta |-> 0, particion |-> << >>]

VARIABLES
    pc,                   \* position of the program
    existeOutput,         \* os.path.exists(output_base)
    entradas,             \* os.listdir(output_base): for each entry, is it a directory
    archivos,             \* the record files of the run: container, name, parseable
    ubic,                 \* file system: where each file is now
    trashDirs,            \* partition directories that exist under trash
    max_registros,        \* parameter of procesar_multiple_regages
    carpetas,             \* local: the container directories
    iCarpeta,             \* local: index of the container being visited
    archivos_json,        \* local: listing of the container being visited
    iArchivo,             \* local: index in archivos_json
    registros_procesados, \* local: counter of processed records
    registro,             \* local: the parsed record
    driver,               \* local of procesar_registro: None or a handle
    retorno,              \* value procesar_registro is about to return
    intento,              \* loop variable of the loop of procesar_registro running
    intentoCert,          \* loop variable of autenticar_y_seleccionar_certificado
    paso,                 \* next step of the authentication sequence
    archivos_descargados, \* local of descargar_documentos
    vivos,                \* handles returned by configure and not yet quit
    handle,               \* the handle configure returned to the current record
    logs,                 \* log lines per code since the last call or return of procesar_registro
    llamadas,             \* calls of the wrapped action per loop, current record
    exitos,               \* successful calls of the wrapped action per loop
    kExito,               \* value of the loop variable at the success
    llamadasCert,         \* attempts made by the running call of the protocol
    quitCalls,            \* calls of driver.quit() in the current record
    configureCalls,       \* calls of configure() in the current record
    etapas,               \* stages entered by the current record, in order
    invocados,            \* files handed to procesar_registro, in order
    fallosParse,          \* files whose content failed to parse
    resultado,            \* how the last call of procesar_registro ended
    argumentos,           \* the arguments of get_linkMiteco: regage_val, nif_productor, nif_representante
    linkMiteco,           \* the value get_linkMiteco returned last
    previo,               \* the value get_linkMiteco returned the time before
    llamadasLink,         \* calls of get_linkMiteco
    lineasInfo01,         \* lines written to the log by get_linkMiteco
    info,                 \* the module-level configuration mapping
    pausas                \* inter-record delays performed, time.sleep(10)

vars == << pc, existeOutput, entradas, archivos, ubic, trashDirs, max_registros,
           carpetas, iCarpeta, archivos_json, iArchivo, registros_procesados,
           registro, driver, retorno, intento, intentoCert, paso,
           archivos_descargados, vivos, handle, logs, llamadas, exitos,
           kExito, llamadasCert, quitCalls, configureCalls, etapas, invocados,
           fallosParse, resultado, argumentos, linkMiteco, previo, llamadasLink,
           lineasInfo01, info, pausas >>

\* What the calls of get_linkMiteco are followed with, and the configuration.
enlace == << argumentos, linkMiteco, previo, llamadasLink, lineasInfo01, info >>
lote == << enlace, existeOutput, entradas, archivos, max_registros, carpetas, iCarpeta,
           archivos_json, iArchivo >>
sesion == << driver, retorno, intento, intentoCert, paso, archivos_descargados,
             vivos, handle, llamadas, exitos, kExito, llamadasCert, quitCalls,
             configureCalls, etapas >>
disco == << ubic, trashDirs >>

Log(c) == [logs EXCEPT ![c] = @ + 1]
SinLogs == [c \in Codigos |-> 0]
Cero == [b \in Bucles |-> 0]

(* ------------------------------- Init ---------------------------------- *)
\* The files of a run, in a canonical order: by container, then by name.
Clave(a) == a.carpeta * 10 + a.nombre
Layouts(n) == { l \in [1..n -> [carpeta : 1..MaxCarpetas, nombre : 1..Len(Nombres),
                                parseable : BOOLEAN]] :
                  /\ \A i, j \in 1..n : i < j => Clave(l[i]) < Clave(l[j])
                  /\ \A i \in 1..n : ~EsJson(Nombres[l[i].nombre]) => l[i].parseable }
\* The listings of the output directory: its container directories, after
\* one entry that is no directory when there is such an entry.
Listados == { e \in UNION { [1..n -> BOOLEAN] : n \in 0..MaxCarpetas } :
                \A i \in DOMAIN e : i > 1 => e[i] }

\* The locals and the observations before the first record.
InitLocales ==
    /\ carpetas = << >>
    /\ iCarpeta = 0
    /\ archivos_json = << >>
    /\ iArchivo = 0
    /\ registros_procesados = 0
    /\ registro = NoMapping
    /\ driver = None
    /\ retorno = "None"
    /\ intento = 0
    /\ intentoCert = 0
    /\ paso = 0
    /\ archivos_descargados = 0
    /\ vivos = {}
    /\ handle = None
    /\ logs = SinLogs
    /\ llamadas = Cero
    /\ exitos = Cero
    /\ kExito = Cero
    /\ llamadasCert = 0
    /\ quitCalls = 0
    /\ configureCalls = 0
    /\ etapas = << >>
    /\ invocados = << >>
    /\ fallosParse = {}
    /\ resultado = "-"
    /\ pausas = 0

\* The calls of get_linkMiteco are not followed: the URL has no part in the
\* control flow of the run.
SinEnlace ==
    /\ argumentos = << << >>, << >>, << >> >>
    /\ linkMiteco = << >>
    /\ previo = << >>
    /\ llamadasLink = 0
    /\ lineasInfo01 = 0
    /\ info = [NOMBRE_CERT |-> "c1"]

Init ==
    /\ pc = "pm_inicio"
    /\ existeOutput \in BOOLEAN
    /\ entradas \in Listados
    /\ \E n \in 0..MaxArchivos : archivos \in Layouts(n)
    /\ \A f \in DOMAIN archivos :
          /\ existeOutput
          /\ archivos[f].carpeta \in DOMAIN entradas
          /\ entradas[archivos[f].carpeta]
    /\ ~existeOutput => entradas = << >>
    /\ ubic = [f \in DOMAIN archivos |-> DirOutput(archivos[f].carpeta)]
    /\ trashDirs = {}
    /\ max_registros \in 0..MaxRegistros
    /\ InitLocales
    /\ SinEnlace



(* ------------------- procesar_multiple_regages ------------------------- *)
\* The sequences that list every element of the set S once: an os.listdir order.
Ordenes(S) == { o \in [1..Cardinality(S) -> S] :
                  \A i, j \in DOMAIN o : i # j => o[i] # o[j] }
\* The files that are now in directory d.
EnDir(d) == { f \in DOMAIN ubic : ubic[f] = d }
\* The container being visited and the file being handled.
Carpeta == carpetas[iCarpeta]
Archivo == archivos_json[iArchivo]
\* [d for d in os.listdir(output_base) if os.path.isdir(...)]
SoloDirs(ents) == SelectSeq([i \in DOMAIN ents |-> i], LAMBDA e : ents[e])

\* if not os.path.exists(output_base): log, return
SinOutput ==
    /\ pc = "pm_inicio"
    /\ ~existeOutput
    /\ logs' = Log("ERR-12")
    /\ pc' = "fin"
    /\ UNCHANGED << pausas, lote, sesion, disco, registros_procesados, registro,
                    invocados, fallosParse, resultado >>

\* SinCarpetas without the return: the loop over the containers follows.
SinCarpetasSigue ==
    /\ pc = "pm_inicio"
    /\ existeOutput
    /\ SoloDirs(entradas) = << >>
    /\ logs' = Log("ERR-13")
    /\ pc' = "pm_carpeta"
    /\ UNCHANGED << pausas, lote, sesion, disco, registros_procesados, registro,
                    invocados, fallosParse, resultado >>

\* carpetas = [...]; if not carpetas: log, return
SinCarpetas ==
    /\ pc = "pm_inicio"
    /\ existeOutput
    /\ SoloDirs(entradas) = << >>
    /\ logs' = Log("ERR-13")
    /\ pc' = "fin"
    /\ UNCHANGED << pausas, lote, sesion, disco, registros_procesados, registro,
                    invocados, fallosParse, resultado >>

\* carpetas = [...]; registros_procesados = 0; enter the outer loop
ListarCarpetas ==
    /\ pc = "pm_inicio"
    /\ existeOutput
    /\ SoloDirs(entradas) # << >>
    /\ carpetas' = SoloDirs(entradas)
    /\ iCarpeta' = 0
    /\ registros_procesados' = 0
    /\ pc' = "pm_carpeta"
    /\ UNCHANGED << pausas, enlace, existeOutput, entradas, archivos, max_registros, archivos_json,
                    iArchivo, sesion, disco, registro, logs, invocados,
                    fallosParse, resultado >>

\* for carpeta in carpetas: archivos_json = [f for f in os.listdir(carpeta) if ...json]
ListarArchivos ==
    /\ pc = "pm_carpeta"
    /\ iCarpeta < Len(carpetas)
    /\ iCarpeta' = iCarpeta + 1
    /\ archivos_json' \in Ordenes({ f \in EnDir(DirOutput(carpetas[iCarpeta + 1])) :
                                      EsJson(Nombres[archivos[f].nombre]) })
    /\ iArchivo' = 0
    /\ pc' = "pm_archivo"
    /\ UNCHANGED << pausas, enlace, existeOutput, entradas, archivos, max_registros, carpetas,
                    sesion, disco, registros_procesados, registro, logs,
                    invocados, fallosParse, resultado >>

\* the outer loop is exhausted: log INFO-21 and return
FinCarpetas ==
    /\ pc = "pm_carpeta"
    /\ iCarpeta = Len(carpetas)
    /\ pc' = "fin"
    /\ UNCHANGED << pausas, lote, sesion, disco, registros_procesados, registro, logs,
                    invocados, fallosParse, resultado >>

\* the inner loop is exhausted: next container
FinArchivos ==
    /\ pc = "pm_archivo"
    /\ iArchivo = Len(archivos_json)
    /\ pc' = "pm_carpeta"
    /\ UNCHANGED << pausas, lote, sesion, disco, registros_procesados, registro, logs,
                    invocados, fallosParse, resultado >>

\* if registros_procesados >= max_registros: log INFO-17, return
LimiteAlcanzado ==
    /\ pc = "pm_archivo"
    /\ iArchivo < Len(archivos_json)
    /\ registros_procesados >= max_registros
    /\ pc' = "fin"
    /\ UNCHANGED << pausas, lote, sesion, disco, registros_procesados, registro, logs,
                    invocados, fallosParse, resultado >>

\* the next file of the listing is taken: ruta_json = os.path.join(...)
SiguienteArchivo ==
    /\ pc = "pm_archivo"
    /\ iArchivo < Len(archivos_json)
    /\ registros_procesados < max_registros
    /\ iArchivo' = iArchivo + 1
    /\ pc' = "pm_leer"
    /\ UNCHANGED << pausas, enlace, existeOutput, entradas, archivos, max_registros, carpetas,
                    iCarpeta, archivos_json, sesion, disco, registros_procesados,
                    registro, logs, invocados, fallosParse, resultado >>

\* JsonLoadFalla that gives the batch up instead of going on with the next file.
JsonLoadFallaAborta ==
    /\ pc = "pm_leer"
    /\ ~archivos[Archivo].parseable
    /\ logs' = Log("ERR-14")
    /\ fallosParse' = fallosParse \cup {Archivo}
    /\ pc' = "fin"
    /\ UNCHANGED << pausas, lote, sesion, disco, registros_procesados, registro,
                    invocados, resultado >>

\* json.load(f) raises: log ERR-14, continue
JsonLoadFalla ==
    /\ pc = "pm_leer"
    /\ ~archivos[Archivo].parseable
    /\ logs' = Log("ERR-14")
    /\ fallosParse' = fallosParse \cup {Archivo}
    /\ pc' = "pm_archivo"
    /\ UNCHANGED << pausas, lote, sesion, disco, registros_procesados, registro,
                    invocados, resultado >>

\* The locals of procesar_registro and what was observed of its last call,
\* at the call and once the batch loop has gone on after its return.
NuevaSesion ==
    /\ driver' = None
    /\ retorno' = "None"
    /\ intento' = 0
    /\ intentoCert' = 0
    /\ paso' = 0
    /\ archivos_descargados' = 0
    /\ llamadas' = Cero
    /\ exitos' = Cero
    /\ kExito' = Cero
    /\ llamadasCert' = 0
    /\ quitCalls' = 0
    /\ configureCalls' = 0
    /\ etapas' = << >>
    /\ handle' = None
    /\ logs' = SinLogs

\* registro = json.load(f) returns some JSON value; procesar_registro(registro) is called
JsonLoadOk ==
    /\ pc = "pm_leer"
    /\ archivos[Archivo].parseable
    /\ registro' \in Registros
    /\ invocados' = Append(invocados, Archivo)
    /\ NuevaSesion
    /\ resultado' = "-"
    /\ pc' = "pr_campos"
    /\ UNCHANGED << pausas, lote, vivos, disco, registros_procesados, fallosParse >>

\* procesar_registro has returned: registros_procesados += 1; the partition
\* name is computed; os.makedirs(trash_dir, exist_ok=True) succeeds
MakedirsOk ==
    /\ pc = "pm_archivar"
    /\ registros_procesados' = registros_procesados + 1
    /\ trashDirs' = trashDirs \cup {NombreProductor(registro)}
    /\ NuevaSesion
    /\ pc' = "pm_mover"
    /\ UNCHANGED << pausas, lote, vivos, ubic, registro, invocados, fallosParse,
                    resultado >>

\* os.makedirs raises: nothing catches it, procesar_multiple_regages raises
MakedirsFalla ==
    /\ pc = "pm_archivar"
    /\ registros_procesados' = registros_procesados + 1
    /\ NuevaSesion
    /\ pc' = "excepcion"
    /\ UNCHANGED << pausas, lote, vivos, disco, registro, invocados, fallosParse,
                    resultado >>

\* Destino without the partition of the producer: every record goes to trash itself.
DestinoSinParticion == DirTrash(<< >>)

\* shutil.move(ruta_json, destino): the file gets to destino, a file that was
\* there under the same name is replaced
Destino == DirTrash(NombreProductor(registro))
Mover(f, d) == [g \in DOMAIN ubic |->
                  IF g = f THEN d
                  ELSE IF ubic[g] = d /\ archivos[g].nombre = archivos[f].nombre
                       THEN Perdido ELSE ubic[g]]
\* ShutilMoveOk with no pause after the move: the next file follows at once.
ShutilMoveOkSinPausa ==
    /\ pc = "pm_mover"
    /\ ubic' = Mover(Archivo, Destino)
    /\ pc' = "pm_archivo"
    /\ UNCHANGED << pausas, lote, sesion, trashDirs, registros_procesados, registro, logs,
                    invocados, fallosParse, resultado >>

ShutilMoveOk ==
    /\ pc = "pm_mover"
    /\ ubic' = Mover(Archivo, Destino)
    /\ pc' = "pm_pausa"
    /\ UNCHANGED << pausas, lote, sesion, trashDirs, registros_procesados, registro, logs,
                    invocados, fallosParse, resultado >>

\* shutil.move raises: log ERR-15, the file stays
ShutilMoveFalla ==
    /\ pc = "pm_mover"
    /\ logs' = Log("ERR-15")
    /\ pc' = "pm_pausa"
    /\ UNCHANGED << pausas, lote, sesion, disco, registros_procesados, registro,
                    invocados, fallosParse, resultado >>

\* time.sleep(10), then the next file of the listing
Pausa ==
    /\ pc = "pm_pausa"
    /\ pausas' = pausas + 1
    /\ pc' = "pm_archivo"
    /\ UNCHANGED << lote, sesion, disco, registros_procesados, registro, logs,
                    invocados, fallosParse, resultado >>


(* -------------------------- procesar_registro -------------------------- *)
\* What the batch loop keeps while procesar_registro runs.
fuera == << lote, disco, registros_procesados, registro, invocados, fallosParse,
           pausas >>
\* Stage e has been entered by the current record.
Entro(e) == \E i \in DOMAIN etapas : etapas[i] = e
\* The stages entered so far, with stage e entered now if it was not.
Etapa(e) == IF Entro(e) THEN etapas ELSE Append(etapas, e)
\* The counters of the loops and the log are those of the stage in progress:
\* a step of stage e finds them empty when it is the first step of e.
En(e, fn) == IF Entro(e) THEN fn ELSE [x \in DOMAIN fn |-> 0]
Mas(fn, b) == [fn EXCEPT ![b] = @ + 1]
\* The log fn after the lines of the codes cs, each logged once.
Con(fn, cs) == [c \in DOMAIN fn |-> IF c \in cs THEN fn[c] + 1 ELSE fn[c]]

\* registro.get(...) or .replace(...) raises AttributeError before the try:
\* the exception leaves procesar_registro and procesar_multiple_regages
CamposFalla ==
    /\ pc = "pr_campos"
    /\ CamposRaise(registro)
    /\ resultado' = "raise"
    /\ pc' = "excepcion"
    /\ UNCHANGED << fuera, sesion, logs >>

\* the five fields are read; driver = None; the URL is built
CamposOk ==
    /\ pc = "pr_campos"
    /\ ~CamposRaise(registro)
    /\ driver' = None
    /\ pc' = "pr_configure"
    /\ UNCHANGED << fuera, retorno, intento, intentoCert, paso, archivos_descargados,
                    vivos, handle, llamadas, exitos, kExito, llamadasCert,
                    quitCalls, configureCalls, etapas, logs, resultado >>

\* The handle a call of configure() creates: the handle of the n-th record
\* handed to procesar_registro is n.
NuevoHandle == Len(invocados)

\* driver = webConfiguration.configure() returns a usable handle
ConfigureOk ==
    /\ pc = "pr_configure"
    /\ configureCalls' = configureCalls + 1
    /\ driver' = NuevoHandle
    /\ vivos' = vivos \cup {NuevoHandle}
    /\ handle' = NuevoHandle
    /\ etapas' = Etapa("configure")
    /\ intento' = 1
    /\ pc' = "pr_abrir"
    /\ UNCHANGED << fuera, retorno, intentoCert, paso, archivos_descargados,
                    llamadas, exitos, kExito, llamadasCert, quitCalls, logs,
                    resultado >>

\* ConfigureNone without the early return: the session goes on with no handle.
ConfigureNoneSigue ==
    /\ pc = "pr_configure"
    /\ configureCalls' = configureCalls + 1
    /\ driver' = None
    /\ etapas' = Etapa("configure")
    /\ logs' = Con(logs, {"ERR-04"})
    /\ intento' = 1
    /\ pc' = "pr_abrir"
    /\ UNCHANGED << fuera, retorno, resultado, intentoCert, paso, archivos_descargados,
                    vivos, handle, llamadas, exitos, kExito, llamadasCert, quitCalls >>

\* configure() returns no usable handle: log ERR-04, return None; the finally
\* block finds driver falsy
ConfigureNone ==
    /\ pc = "pr_configure"
    /\ configureCalls' = configureCalls + 1
    /\ driver' = None
    /\ etapas' = Etapa("configure")
    /\ logs' = Con(logs, {"ERR-04"})
    /\ retorno' = "None"
    /\ resultado' = "None"
    /\ pc' = "pm_archivar"
    /\ UNCHANGED << fuera, intento, intentoCert, paso, archivos_descargados, vivos,
                    handle, llamadas, exitos, kExito, llamadasCert, quitCalls >>

\* configure() raises: the except clause of its class logs, return None;
\* driver is still None in the finally block
ConfigureFalla ==
    /\ pc = "pr_configure"
    /\ configureCalls' = configureCalls + 1
    /\ etapas' = Etapa("configure")
    /\ \E c \in Clases : logs' = Con(logs, {CodigoExcept(c)})
    /\ retorno' = "None"
    /\ resultado' = "None"
    /\ pc' = "pm_archivar"
    /\ UNCHANGED << fuera, driver, intento, intentoCert, paso, archivos_descargados,
                    vivos, handle, llamadas, exitos, kExito, llamadasCert,
                    quitCalls >>

\* AbrirWebOk without the break: the loop goes on after the success.
AbrirWebOkSinBreak ==
    /\ pc = "pr_abrir"
    /\ etapas' = Etapa("open")
    /\ llamadas' = Mas(En("open", llamadas), "open")
    /\ exitos' = Mas(En("open", exitos), "open")
    /\ kExito' = [En("open", kExito) EXCEPT !["open"] = intento]
    /\ logs' = En("open", logs)
    /\ IF intento < TopeAbrir
         THEN /\ intento' = intento + 1
              /\ pc' = "pr_abrir"
              /\ UNCHANGED << intentoCert, paso, llamadasCert >>
         ELSE /\ intento' = 1
              /\ intentoCert' = 1
              /\ paso' = 1
              /\ llamadasCert' = 0
              /\ pc' = "pr_auth"
    /\ UNCHANGED << fuera, driver, retorno, archivos_descargados, vivos, handle,
                    quitCalls, configureCalls, resultado >>

\* webFunctions.abrir_web succeeds in the first loop: break, on to the
\* authentication loop and the first attempt of the protocol
AbrirWebOk ==
    /\ pc = "pr_abrir"
    /\ etapas' = Etapa("open")
    /\ llamadas' = Mas(En("open", llamadas), "open")
    /\ exitos' = Mas(En("open", exitos), "open")
    /\ kExito' = [En("open", kExito) EXCEPT !["open"] = intento]
    /\ logs' = En("open", logs)
    /\ intento' = 1
    /\ intentoCert' = 1
    /\ paso' = 1
    /\ llamadasCert' = 0
    /\ pc' = "pr_auth"
    /\ UNCHANGED << fuera, driver, retorno, archivos_descargados, vivos, handle,
                    quitCalls, configureCalls, resultado >>

\* AbrirWebFalla in a loop with no ceiling: the attempt is made again.
AbrirWebFallaSinTope ==
    /\ pc = "pr_abrir"
    /\ etapas' = Etapa("open")
    /\ llamadas' = Mas(En("open", llamadas), "open")
    /\ logs' = Con(En("open", logs), {"WARN-02"})
    /\ UNCHANGED << pc, fuera, driver, retorno, intento, intentoCert, paso,
                    archivos_descargados, vivos, handle, exitos, kExito,
                    llamadasCert, quitCalls, configureCalls, resultado >>

\* abrir_web raises in the first loop: log WARN-02, sleep, next attempt; after
\* the last attempt the else branch logs ERR-05 and returns None
AbrirWebFalla ==
    /\ pc = "pr_abrir"
    /\ etapas' = Etapa("open")
    /\ llamadas' = Mas(En("open", llamadas), "open")
    /\ IF intento < TopeAbrir
         THEN /\ logs' = Con(En("open", logs), {"WARN-02"})
              /\ intento' = intento + 1
              /\ pc' = "pr_abrir"
              /\ UNCHANGED retorno
         ELSE /\ logs' = Con(En("open", logs), {"WARN-02", "ERR-05"})
              /\ retorno' = "None"
              /\ pc' = "pr_finally"
              /\ UNCHANGED intento
    /\ UNCHANGED << fuera, driver, intentoCert, paso, archivos_descargados, vivos,
                    handle, exitos, kExito, llamadasCert, quitCalls,
                    configureCalls, resultado >>

(* --------------- autenticar_y_seleccionar_certificado ------------------ *)
\* The four calls of one attempt, in the order of the source.
Pasos == << "esperar_elemento_por_id", "clickar_boton_por_value",
            "clickar_boton_por_texto", "seleccionar_certificado_chrome" >>

\* one of the first three calls of the attempt returns: the next call follows
PasoOk ==
    /\ pc = "pr_auth"
    /\ paso < Len(Pasos)
    /\ paso' = paso + 1
    /\ etapas' = Etapa("auth")
    /\ llamadas' = En("auth", llamadas)
    /\ exitos' = En("auth", exitos)
    /\ kExito' = En("auth", kExito)
    /\ logs' = En("auth", logs)
    /\ UNCHANGED << pc, fuera, driver, retorno, intento, intentoCert,
                    archivos_descargados, vivos, handle, llamadasCert, quitCalls,
                    configureCalls, resultado >>

\* AuthOk with no break in the loop of procesar_registro: the protocol is
\* called again after it returned, while attempts are left.
AuthOkSinBreak ==
    /\ pc = "pr_auth"
    /\ paso = Len(Pasos)
    /\ etapas' = Etapa("auth")
    /\ llamadas' = Mas(Mas(En("auth", llamadas), "cert"), "auth")
    /\ exitos' = Mas(Mas(En("auth", exitos), "cert"), "auth")
    /\ kExito' = [En("auth", kExito) EXCEPT !["cert"] = intentoCert, !["auth"] = intento]
    /\ logs' = En("auth", logs)
    /\ IF intento < TopeAuth
         THEN /\ intento' = intento + 1
              /\ intentoCert' = 1
              /\ paso' = 1
              /\ llamadasCert' = 0
              /\ pc' = "pr_auth"
         ELSE /\ intento' = 1
              /\ intentoCert' = 0
              /\ paso' = 0
              /\ llamadasCert' = llamadasCert + 1
              /\ pc' = "pr_reabrir"
    /\ UNCHANGED << fuera, driver, retorno, archivos_descargados, vivos, handle,
                    quitCalls, configureCalls, resultado >>

\* the last call of the attempt returns: break, the protocol returns; the
\* loop of procesar_registro breaks too, on to the reopen loop
AuthOk ==
    /\ pc = "pr_auth"
    /\ paso = Len(Pasos)
    /\ etapas' = Etapa("auth")
    /\ llamadasCert' = llamadasCert + 1
    /\ llamadas' = Mas(Mas(En("auth", llamadas), "cert"), "auth")
    /\ exitos' = Mas(Mas(En("auth", exitos), "cert"), "auth")
    /\ kExito' = [En("auth", kExito) EXCEPT !["cert"] = intentoCert, !["auth"] = intento]
    /\ logs' = En("auth", logs)
    /\ intento' = 1
    /\ intentoCert' = 0
    /\ paso' = 0
    /\ pc' = "pr_reabrir"
    /\ UNCHANGED << fuera, driver, retorno, archivos_descargados, vivos, handle,
                    quitCalls, configureCalls, resultado >>

\* PasoFalla with a next attempt that resumes at the call that raised.
PasoFallaReanuda ==
    /\ pc = "pr_auth"
    /\ intentoCert < TopeCert
    /\ etapas' = Etapa("auth")
    /\ llamadasCert' = llamadasCert + 1
    /\ llamadas' = Mas(En("auth", llamadas), "cert")
    /\ logs' = Con(En("auth", logs), {"WARN-01"})
    /\ exitos' = En("auth", exitos)
    /\ kExito' = En("auth", kExito)
    /\ intentoCert' = intentoCert + 1
    /\ paso' = paso
    /\ UNCHANGED << pc, fuera, driver, retorno, intento, archivos_descargados, vivos,
                    handle, quitCalls, configureCalls, resultado >>

\* a call of the attempt raises, attempts are left: log WARN-01, sleep, the
\* next attempt starts at the first call
PasoFalla ==
    /\ pc = "pr_auth"
    /\ intentoCert < TopeCert
    /\ etapas' = Etapa("auth")
    /\ llamadasCert' = llamadasCert + 1
    /\ llamadas' = Mas(En("auth", llamadas), "cert")
    /\ logs' = Con(En("auth", logs), {"WARN-01"})
    /\ exitos' = En("auth", exitos)
    /\ kExito' = En("auth", kExito)
    /\ intentoCert' = intentoCert + 1
    /\ paso' = 1
    /\ UNCHANGED << pc, fuera, driver, retorno, intento, archivos_descargados, vivos,
                    handle, quitCalls, configureCalls, resultado >>

\* AuthFalla with no handler around the protocol in the wrapper loop: the
\* exception of the exhausted protocol ends the record.
AuthFallaAborta ==
    /\ pc = "pr_auth"
    /\ intentoCert = TopeCert
    /\ intento < TopeAuth
    /\ etapas' = Etapa("auth")
    /\ llamadas' = Mas(Mas(En("auth", llamadas), "cert"), "auth")
    /\ logs' = Con(En("auth", logs), {"WARN-01", "ERR-01", "ERR-10"})
    /\ exitos' = En("auth", exitos)
    /\ kExito' = En("auth", kExito)
    /\ intentoCert' = 0
    /\ paso' = 0
    /\ llamadasCert' = 0
    /\ retorno' = "None"
    /\ pc' = "pr_finally"
    /\ UNCHANGED << fuera, driver, intento, archivos_descargados, vivos, handle,
                    quitCalls, configureCalls, resultado >>

\* a call of the last attempt raises: log WARN-01, the else branch logs
\* ERR-01 and raises; procesar_registro catches it, logs WARN-03, sleeps and
\* calls the protocol again
AuthFalla ==
    /\ pc = "pr_auth"
    /\ intentoCert = TopeCert
    /\ intento < TopeAuth
    /\ etapas' = Etapa("auth")
    /\ llamadas' = Mas(Mas(En("auth", llamadas), "cert"), "auth")
    /\ logs' = Con(En("auth", logs), {"WARN-01", "ERR-01", "WARN-03"})
    /\ exitos' = En("auth", exitos)
    /\ kExito' = En("auth", kExito)
    /\ intento' = intento + 1
    /\ intentoCert' = 1
    /\ paso' = 1
    /\ llamadasCert' = 0
    /\ UNCHANGED << pc, fuera, driver, retorno, archivos_descargados, vivos, handle,
                    quitCalls, configureCalls, resultado >>

\* AuthAgotada with an else branch that does not return: the reopen loop
\* follows the exhausted authentication loop.
AuthAgotadaSigue ==
    /\ pc = "pr_auth"
    /\ intentoCert = TopeCert
    /\ intento = TopeAuth
    /\ etapas' = Etapa("auth")
    /\ llamadasCert' = 0
    /\ llamadas' = Mas(Mas(En("auth", llamadas), "cert"), "auth")
    /\ logs' = Con(En("auth", logs), {"WARN-01", "ERR-01", "WARN-03", "ERR-06"})
    /\ exitos' = En("auth", exitos)
    /\ kExito' = En("auth", kExito)
    /\ intentoCert' = 0
    /\ paso' = 0
    /\ intento' = 1
    /\ pc' = "pr_reabrir"
    /\ UNCHANGED << fuera, driver, retorno, archivos_descargados, vivos, handle,
                    quitCalls, configureCalls, resultado >>

\* the protocol raises in the last attempt of the loop of procesar_registro:
\* log WARN-03, the else branch logs ERR-06 and returns None
AuthAgotada ==
    /\ pc = "pr_auth"
    /\ intentoCert = TopeCert
    /\ intento = TopeAuth
    /\ etapas' = Etapa("auth")
    /\ llamadasCert' = 0
    /\ llamadas' = Mas(Mas(En("auth", llamadas), "cert"), "auth")
    /\ logs' = Con(En("auth", logs), {"WARN-01", "ERR-01", "WARN-03", "ERR-06"})
    /\ exitos' = En("auth", exitos)
    /\ kExito' = En("auth", kExito)
    /\ intentoCert' = 0
    /\ paso' = 0
    /\ retorno' = "None"
    /\ pc' = "pr_finally"
    /\ UNCHANGED << fuera, driver, intento, archivos_descargados, vivos, handle,
                    quitCalls, configureCalls, resultado >>

(* --------------------- procesar_registro, continued -------------------- *)
\* abrir_web succeeds in the reopen loop: break, on to setup_descarga
ReabrirWebOk ==
    /\ pc = "pr_reabrir"
    /\ etapas' = Etapa("reopen")
    /\ llamadas' = Mas(En("reopen", llamadas), "reopen")
    /\ exitos' = Mas(En("reopen", exitos), "reopen")
    /\ kExito' = [En("reopen", kExito) EXCEPT !["reopen"] = intento]
    /\ logs' = En("reopen", logs)
    /\ llamadasCert' = 0
    /\ pc' = "pr_setup"
    /\ UNCHANGED << fuera, driver, retorno, intento, intentoCert, paso,
                    archivos_descargados, vivos, handle, quitCalls, configureCalls,
                    resultado >>

\* ReabrirWebFalla with a loop that gives up one attempt early.
ReabrirWebFallaCorta ==
    /\ pc = "pr_reabrir"
    /\ etapas' = Etapa("reopen")
    /\ llamadas' = Mas(En("reopen", llamadas), "reopen")
    /\ exitos' = En("reopen", exitos)
    /\ kExito' = En("reopen", kExito)
    /\ llamadasCert' = 0
    /\ IF intento + 1 < TopeAbrir
         THEN /\ logs' = Con(En("reopen", logs), {"WARN-04"})
              /\ intento' = intento + 1
              /\ pc' = "pr_reabrir"
              /\ UNCHANGED retorno
         ELSE /\ logs' = Con(En("reopen", logs), {"WARN-04", "ERR-07"})
              /\ retorno' = "None"
              /\ pc' = "pr_finally"
              /\ UNCHANGED intento
    /\ UNCHANGED << fuera, driver, intentoCert, paso, archivos_descargados, vivos,
                    handle, quitCalls, configureCalls, resultado >>

\* abrir_web raises in the reopen loop: log WARN-04, sleep, next attempt;
\* after the last attempt the else branch logs ERR-07 and returns None
ReabrirWebFalla ==
    /\ pc = "pr_reabrir"
    /\ etapas' = Etapa("reopen")
    /\ llamadas' = Mas(En("reopen", llamadas), "reopen")
    /\ exitos' = En("reopen", exitos)
    /\ kExito' = En("reopen", kExito)
    /\ llamadasCert' = 0
    /\ IF intento < TopeAbrir
         THEN /\ logs' = Con(En("reopen", logs), {"WARN-04"})
              /\ intento' = intento + 1
              /\ pc' = "pr_reabrir"
              /\ UNCHANGED retorno
         ELSE /\ logs' = Con(En("reopen", logs), {"WARN-04", "ERR-07"})
              /\ retorno' = "None"
              /\ pc' = "pr_finally"
              /\ UNCHANGED intento
    /\ UNCHANGED << fuera, driver, intentoCert, paso, archivos_descargados, vivos,
                    handle, quitCalls, configureCalls, resultado >>

\* An exception of class c reaches the except clauses of procesar_registro
\* with the log fn: the clause of its class logs, return None, then the
\* finally block.
Capturada(c, fn) ==
    /\ logs' = Con(fn, {CodigoExcept(c)})
    /\ retorno' = "None"
    /\ pc' = "pr_finally"

\* downloadFunctions.setup_descarga returns; descargar_documentos is called
SetupOk ==
    /\ pc = "pr_setup"
    /\ etapas' = Etapa("setup")
    /\ llamadas' = En("setup", llamadas)
    /\ exitos' = En("setup", exitos)
    /\ kExito' = En("setup", kExito)
    /\ logs' = En("setup", logs)
    /\ archivos_descargados' = 0
    /\ pc' = "dd_snapshot"
    /\ UNCHANGED << fuera, driver, retorno, intento, intentoCert, paso, vivos,
                    handle, llamadasCert, quitCalls, configureCalls, resultado >>

\* setup_descarga raises
SetupFalla ==
    /\ pc = "pr_setup"
    /\ etapas' = Etapa("setup")
    /\ llamadas' = En("setup", llamadas)
    /\ exitos' = En("setup", exitos)
    /\ kExito' = En("setup", kExito)
    /\ \E c \in Clases : Capturada(c, En("setup", logs))
    /\ UNCHANGED << fuera, driver, intento, intentoCert, paso, archivos_descargados,
                    vivos, handle, llamadasCert, quitCalls, configureCalls,
                    resultado >>

(* ------------------------ descargar_documentos ------------------------- *)
\* archivos_descargados = []; snapshot_folder_state returns
SnapshotOk ==
    /\ pc = "dd_snapshot"
    /\ etapas' = Etapa("snapshot")
    /\ archivos_descargados' = 0
    /\ pc' = "dd_click"
    /\ UNCHANGED << fuera, driver, retorno, intento, intentoCert, paso, vivos,
                    handle, llamadas, exitos, kExito, llamadasCert, quitCalls,
                    configureCalls, logs, resultado >>

\* snapshot_folder_state raises before the try of descargar_documentos: the
\* exception leaves it and reaches the except clauses of procesar_registro
SnapshotFalla ==
    /\ pc = "dd_snapshot"
    /\ etapas' = Etapa("snapshot")
    /\ \E c \in Clases : Capturada(c, logs)
    /\ UNCHANGED << fuera, driver, intento, intentoCert, paso, archivos_descargados,
                    vivos, handle, llamadas, exitos, kExito, llamadasCert,
                    quitCalls, configureCalls, resultado >>

\* clickar_todos_los_links returns
ClickOk ==
    /\ pc = "dd_click"
    /\ etapas' = Etapa("click")
    /\ pc' = "dd_poll"
    /\ UNCHANGED << fuera, driver, retorno, intento, intentoCert, paso,
                    archivos_descargados, vivos, handle, llamadas, exitos, kExito,
                    llamadasCert, quitCalls, configureCalls, logs, resultado >>

\* ClickFalla with no except clause in descargar_documentos: the exception
\* reaches the except clauses of procesar_registro.
ClickFallaPropaga ==
    /\ pc = "dd_click"
    /\ etapas' = Etapa("click")
    /\ \E c \in Clases : Capturada(c, logs)
    /\ UNCHANGED << fuera, driver, intento, intentoCert, paso, archivos_descargados,
                    vivos, handle, llamadas, exitos, kExito, llamadasCert,
                    quitCalls, configureCalls, resultado >>

\* clickar_todos_los_links raises: log ERR-02, then the finally block
ClickFalla ==
    /\ pc = "dd_click"
    /\ etapas' = Etapa("click")
    /\ logs' = Con(logs, {"ERR-02"})
    /\ pc' = "dd_quit"
    /\ UNCHANGED << fuera, driver, retorno, intento, intentoCert, paso,
                    archivos_descargados, vivos, handle, llamadas, exitos, kExito,
                    llamadasCert, quitCalls, configureCalls, resultado >>

\* wait_for_new_download returns the new files, numDownloads of them or
\* fewer; the list is logged with INFO-05
PollOk ==
    /\ pc = "dd_poll"
    /\ etapas' = Etapa("poll")
    /\ archivos_descargados' \in 0..numDownloads
    /\ logs' = Con(logs, {"INFO-05"})
    /\ pc' = "dd_quit"
    /\ UNCHANGED << fuera, driver, retorno, intento, intentoCert, paso, vivos,
                    handle, llamadas, exitos, kExito, llamadasCert, quitCalls,
                    configureCalls, resultado >>

\* PollFalla that closes the browser and then clicks the PDF links again.
PollFallaReintenta ==
    /\ pc = "dd_poll"
    /\ etapas' = Etapa("poll")
    /\ logs' = Con(logs, {"ERR-02"})
    /\ quitCalls' = quitCalls + 1
    /\ vivos' = vivos \ {driver}
    /\ pc' = "dd_click"
    /\ UNCHANGED << fuera, driver, retorno, intento, intentoCert, paso,
                    archivos_descargados, handle, llamadas, exitos, kExito,
                    llamadasCert, configureCalls, resultado >>

\* wait_for_new_download raises: log ERR-02, then the finally block
PollFalla ==
    /\ pc = "dd_poll"
    /\ etapas' = Etapa("poll")
    /\ logs' = Con(logs, {"ERR-02"})
    /\ pc' = "dd_quit"
    /\ UNCHANGED << fuera, driver, retorno, intento, intentoCert, paso,
                    archivos_descargados, vivos, handle, llamadas, exitos, kExito,
                    llamadasCert, quitCalls, configureCalls, resultado >>

\* The call driver.quit(): the handle is no longer live.
Quit ==
    /\ quitCalls' = quitCalls + 1
    /\ vivos' = vivos \ {driver}
    /\ etapas' = Etapa("quit")

\* RetornoDescarga without "driver = None" after the call of descargar_documentos.
RetornoDescargaSinNone ==
    /\ driver' = driver
    /\ retorno' = "lista"
    /\ resultado' = resultado
    /\ pc' = "pr_finally"

\* What follows the finally block of descargar_documentos: it returns the
\* list, procesar_registro sets driver = None and returns the list, its own
\* finally block finds driver None.
RetornoDescarga ==
    /\ driver' = None
    /\ retorno' = "lista"
    /\ resultado' = "lista"
    /\ pc' = "pm_archivar"

\* finally of descargar_documentos: driver.quit() returns
QuitDescargaOk ==
    /\ pc = "dd_quit"
    /\ Quit
    /\ RetornoDescarga
    /\ UNCHANGED << fuera, handle, intento, intentoCert, paso, archivos_descargados,
                    llamadas, exitos, kExito, llamadasCert, configureCalls, logs >>

\* finally of descargar_documentos: driver.quit() raises, log ERR-03
QuitDescargaFalla ==
    /\ pc = "dd_quit"
    /\ Quit
    /\ logs' = Con(logs, {"ERR-03"})
    /\ RetornoDescarga
    /\ UNCHANGED << fuera, handle, intento, intentoCert, paso, archivos_descargados,
                    llamadas, exitos, kExito, llamadasCert, configureCalls >>

(* ------------------- procesar_registro: finally block ------------------ *)
\* FinallyQuitOk with the cleanup left out: the handle is not released.
FinallyQuitOlvidado ==
    /\ pc = "pr_finally"
    /\ driver # None
    /\ resultado' = retorno
    /\ pc' = "pm_archivar"
    /\ UNCHANGED << fuera, driver, handle, vivos, quitCalls, etapas, retorno, intento,
                    intentoCert, paso, archivos_descargados, llamadas, exitos,
                    kExito, llamadasCert, configureCalls, logs >>

\* if driver: driver.quit() returns; procesar_registro returns
FinallyQuitOk ==
    /\ pc = "pr_finally"
    /\ driver # None
    /\ Quit
    /\ resultado' = retorno
    /\ pc' = "pm_archivar"
    /\ UNCHANGED << fuera, driver, handle, retorno, intento, intentoCert, paso,
                    archivos_descargados, llamadas, exitos, kExito, llamadasCert,
                    configureCalls, logs >>

\* if driver: driver.quit() raises, log ERR-11; procesar_registro returns
FinallyQuitFalla ==
    /\ pc = "pr_finally"
    /\ driver # None
    /\ Quit
    /\ logs' = Con(logs, {"ERR-11"})
    /\ resultado' = retorno
    /\ pc' = "pm_archivar"
    /\ UNCHANGED << fuera, driver, handle, retorno, intento, intentoCert, paso,
                    archivos_descargados, llamadas, exitos, kExito, llamadasCert,
                    configureCalls >>

(* ---------------------------- get_linkMiteco -------------------------- *)
\* Text is a sequence of pieces.  Every digit of the literals of
\* get_linkMiteco is a piece of its own and the text between two digits is
\* one piece; identifiers are made of digits and of letters that the literals
\* do not have, so a piece-wise occurrence is a character-wise occurrence.
Alfabeto == {"1", "B", "X"}
Ids == UNION { [1..n -> Alfabeto] : n \in 1..MaxLargoId }
\* Values of the configuration mapping read from informacionCertsMetalls.txt.
Infos == { [NOMBRE_CERT |-> c] : c \in {"c1", "c2"} }

\* The literals of get_linkMiteco up to each formatted field.
Hasta_idExpediente ==
    << "https://sede.miteco.gob.es/portal/site/seMITECO/area_personal",
       "?btnDetalleProc=btnDetalleProc",
       "&pagina=", "1",
       "&idExpediente=" >>
Hasta_idDocIdentificativo ==
    << "&idProcedimiento=", "7", "3", "6",
       "&idSubOrganoResp=", "1", "1",
       "&idDocIdentificativo=" >>
Hasta_idDocRepresentante == << "&idDocRepresentante=" >>
Hasta_regInicial ==
    << "&idEstadoSeleccionado=-", "1",
       "&idTipoProcSeleccionado=EN+REPRESENTACION+(REA)",
       "&regInicial=" >>
Hasta_nifTitular == << "&nifTitular=" >>
Final == << "&numPagSolSelec=", "1", "0", "#no-back-button" >>

\* get_linkMiteco with nifTitular filled from the representative.
get_linkMitecoTitular(regage_val, nif_productor, nif_representante) ==
    Hasta_idExpediente \o regage_val
      \o Hasta_idDocIdentificativo \o nif_productor
      \o Hasta_idDocRepresentante \o nif_representante
      \o Hasta_regInicial \o regage_val
      \o Hasta_nifTitular \o nif_representante
      \o Final

\* linkMiteco = ( "https://..." f"&idExpediente={regage_val}" ... ): the
\* adjacent literals and formatted fields are concatenated
get_linkMiteco(regage_val, nif_productor, nif_representante) ==
    Hasta_idExpediente \o regage_val
      \o Hasta_idDocIdentificativo \o nif_productor
      \o Hasta_idDocRepresentante \o nif_representante
      \o Hasta_regInicial \o regage_val
      \o Hasta_nifTitular \o nif_productor
      \o Final

\* What the run keeps while get_linkMiteco is followed.
resto == << pc, existeOutput, entradas, archivos, ubic, trashDirs, max_registros,
            carpetas, iCarpeta, archivos_json, iArchivo, registros_procesados,
            registro, driver, retorno, intento, intentoCert, paso,
            archivos_descargados, vivos, handle, logs, llamadas, exitos, kExito,
            llamadasCert, quitCalls, configureCalls, etapas, invocados,
            fallosParse, resultado, pausas >>

\* LlamarGetLink without the logging call.
LlamarGetLinkCallado ==
    /\ pc = "enlace"
    /\ llamadasLink < MaxLlamadasLink
    /\ llamadasLink' = llamadasLink + 1
    /\ previo' = linkMiteco
    /\ linkMiteco' = get_linkMiteco(argumentos[1], argumentos[2], argumentos[3])
    /\ lineasInfo01' = lineasInfo01
    /\ UNCHANGED << resto, argumentos, info >>

\* a call of get_linkMiteco: the URL is built, logged with INFO-01, returned
LlamarGetLink ==
    /\ pc = "enlace"
    /\ llamadasLink < MaxLlamadasLink
    /\ llamadasLink' = llamadasLink + 1
    /\ previo' = linkMiteco
    /\ linkMiteco' = get_linkMiteco(argumentos[1], argumentos[2], argumentos[3])
    /\ lineasInfo01' = lineasInfo01 + 1
    /\ UNCHANGED << resto, argumentos, info >>

\* something else happens in the module between two calls: the
\* configuration mapping info has another content
CambiaInfo ==
    /\ pc = "enlace"
    /\ info' \in Infos \ {info}
    /\ UNCHANGED << resto, argumentos, linkMiteco, previo, llamadasLink, lineasInfo01 >>

(* ------------------------------ the run -------------------------------- *)
Next ==
    \/ SinOutput \/ SinCarpetas \/ ListarCarpetas \/ ListarArchivos
    \/ FinCarpetas \/ FinArchivos \/ LimiteAlcanzado \/ SiguienteArchivo
    \/ JsonLoadFalla \/ JsonLoadOk
    \/ CamposFalla \/ CamposOk
    \/ ConfigureOk \/ ConfigureNone \/ ConfigureFalla
    \/ AbrirWebOk \/ AbrirWebFalla
    \/ PasoOk \/ AuthOk \/ PasoFalla \/ AuthFalla \/ AuthAgotada
    \/ ReabrirWebOk \/ ReabrirWebFalla
    \/ SetupOk \/ SetupFalla
    \/ SnapshotOk \/ SnapshotFalla \/ ClickOk \/ ClickFalla \/ PollOk \/ PollFalla
    \/ QuitDescargaOk \/ QuitDescargaFalla
    \/ FinallyQuitOk \/ FinallyQuitFalla
    \/ MakedirsOk \/ MakedirsFalla \/ ShutilMoveOk \/ ShutilMoveFalla \/ Pausa

Spec == Init /\ [][Next]_vars

\* Every call of a collaborator returns or raises in the end, and the program
\* goes on by itself between two calls: a step that can be taken is taken.
SpecJusto == Init /\ [][Next]_vars /\ WF_vars(Next)

\* The calls of get_linkMiteco alone, for every triple of identifiers.
InitEnlace ==
    /\ pc = "enlace"
    /\ existeOutput = FALSE
    /\ entradas = << >>
    /\ archivos = << >>
    /\ ubic = << >>
    /\ trashDirs = {}
    /\ max_registros = 0
    /\ InitLocales
    /\ argumentos \in Ids \X Ids \X Ids
    /\ linkMiteco = << >>
    /\ previo = << >>
    /\ llamadasLink = 0
    /\ lineasInfo01 = 0
    /\ info \in Infos

NextEnlace == LlamarGetLink \/ CambiaInfo

SpecEnlace == InitEnlace /\ [][NextEnlace]_vars


(* ----------------------------- properties ------------------------------ *)
\* procesar_registro has just returned to the batch loop.
Retornado == pc = "pm_archivar"
\* Positions of procesar_multiple_regages outside procesar_registro.
EnLote == pc \in {"pm_inicio", "pm_carpeta", "pm_archivo", "pm_leer", "pm_archivar",
                  "pm_mover", "pm_pausa", "fin", "excepcion"}

\* C1: when configure() returned a usable driver, driver.quit() has been called
\* exactly once when procesar_registro returns, on every path, and it is never
\* called twice.
C1_QuitExactlyOnce ==
    /\ quitCalls <= 1
    /\ (Retornado /\ handle # None) => (quitCalls = 1 /\ handle \notin vivos)

\* C1 witness: the session returned after snapshot_folder_state raised, with
\* one call of quit.
C1_Witness ==
    /\ Retornado
    /\ handle # None
    /\ quitCalls = 1
    /\ etapas = << "configure", "open", "auth", "reopen", "setup", "snapshot", "quit" >>

\* C2: at most one browser handle is live at any time, and none is live while
\* the batch loop is outside procesar_registro.
C2_AtMostOneLive ==
    /\ Cardinality(vivos) <= 1
    /\ EnLote => vivos = {}

\* C2 witness: the second record of a run has returned, its handle was created
\* and is no longer live.
C2_Witness ==
    /\ Retornado
    /\ Len(invocados) = 2
    /\ handle = 2
    /\ vivos = {}

\* The ceiling of a loop and the attempts of its current run.
TopeDe(b) == IF b = "cert" THEN TopeCert ELSE IF b = "auth" THEN TopeAuth ELSE TopeAbrir
IntentosDe(b) == IF b = "cert" THEN llamadasCert ELSE llamadas[b]
\* The warning logged per failed attempt of a loop.
WarnDe(b) == IF b = "open" THEN "WARN-02" ELSE IF b = "auth" THEN "WARN-03"
             ELSE IF b = "reopen" THEN "WARN-04" ELSE "WARN-01"
\* Control is at the stage that follows the loop b.
SigueA(b) == IF b = "open" THEN pc = "pr_auth"
             ELSE IF b = "reopen" THEN pc = "pr_setup"
             ELSE pc = "pr_reabrir"

\* C3: in each of the four retry loops, a success at attempt k (after k-1
\* failures, k at most the ceiling) ends the loop after exactly k attempts, no
\* attempt follows the success, and control is at the next stage.
C3_SuccessAtK ==
    \A b \in Bucles :
        /\ exitos[b] <= 1
        /\ exitos[b] = 1 =>
              /\ kExito[b] \in 1..TopeDe(b)
              /\ IntentosDe(b) = kExito[b]
              /\ b \in {"open", "reopen"} => logs[WarnDe(b)] = kExito[b] - 1
              /\ b = "auth" => logs[WarnDe(b)] = kExito[b] - 1
              /\ SigueA(b)
        /\ (pc = "pr_auth" /\ exitos["cert"] = 0) => llamadasCert = intentoCert - 1

\* C3 witness: the wrapper loop succeeded at its second attempt, in which the
\* protocol succeeded at its second attempt.
C3_Witness ==
    /\ pc = "pr_reabrir"
    /\ exitos["cert"] = 1 /\ kExito["cert"] = 2
    /\ exitos["auth"] = 1 /\ kExito["auth"] = 2
    /\ logs["WARN-03"] = 1

\* The error of the else branch of a loop of procesar_registro.
ErrDe(b) == IF b = "open" THEN "ERR-05" ELSE IF b = "auth" THEN "ERR-06" ELSE "ERR-07"
\* The stages after the loop b.
Posteriores(b) == IF b = "open" THEN {"auth", "reopen", "setup", "snapshot", "click", "poll"}
                  ELSE IF b = "auth" THEN {"reopen", "setup", "snapshot", "click", "poll"}
                  ELSE {"setup", "snapshot", "click", "poll"}

\* C4: when the wrapped action of the open, authentication or reopen loop fails
\* at every attempt, the loop makes exactly as many attempts as its ceiling,
\* logs one warning per attempt and one error, and procesar_registro returns
\* None without entering a later stage.
C4_Exhaustion ==
    \A b \in {"open", "auth", "reopen"} :
        /\ logs[ErrDe(b)] <= 1
        /\ logs[ErrDe(b)] = 1 <=> (llamadas[b] = TopeDe(b) /\ exitos[b] = 0)
        /\ llamadas[b] <= TopeDe(b)
        /\ logs[ErrDe(b)] = 1 =>
              /\ logs[WarnDe(b)] = TopeDe(b)
              /\ \A e \in Posteriores(b) : ~Entro(e)
              /\ pc \in {"pr_finally", "pm_archivar"}
              /\ retorno = "None"
              /\ Retornado => resultado = "None"

\* C4 witness: the reopen loop was exhausted and procesar_registro returned None.
C4_Witness ==
    /\ Retornado
    /\ logs["ERR-07"] = 1
    /\ llamadas["reopen"] = TopeAbrir
    /\ resultado = "None"

\* C5: when configure() returns no usable handle, procesar_registro logs the
\* error and returns None after one call of configure(), with no call of
\* abrir_web, of the protocol, of setup_descarga, of the download step or of quit.
C5_NoHandle ==
    logs["ERR-04"] >= 1 =>
        /\ logs["ERR-04"] = 1
        /\ Retornado
        /\ resultado = "None"
        /\ configureCalls = 1
        /\ \A b \in Bucles : llamadas[b] = 0
        /\ etapas = << "configure" >>
        /\ quitCalls = 0
        /\ vivos = {}

\* C5 witness: procesar_registro returned after configure() gave no handle.
C5_Witness ==
    /\ Retornado
    /\ logs["ERR-04"] = 1
    /\ handle = None
    /\ configureCalls = 1


Min(a, b) == IF a <= b THEN a ELSE b
\* The record files of the run whose content parses.
Parseables == { f \in DOMAIN archivos :
                  EsJson(Nombres[archivos[f].nombre]) /\ archivos[f].parseable }
\* procesar_multiple_regages has ended, by a return or by an exception.
Terminado == pc \in {"fin", "excepcion"}
\* Where the file f was at the start of the run.
Origen(f) == DirOutput(archivos[f].carpeta)

\* C6: at the end of a run procesar_registro has been invoked on exactly
\* min(max_registros, number of parseable record files) files.
C6_ExactCount ==
    Terminado => Len(invocados) = Min(max_registros, Cardinality(Parseables))

\* The partition of a record: the producer name with underscores for spaces,
\* desconocido when the record has no producer name.
ParticionEsperada(reg) ==
    IF reg.nombre_productor.tipo = "ausente" THEN << "desconocido" >>
    ELSE [i \in DOMAIN reg.nombre_productor.s |->
            IF reg.nombre_productor.s[i] = " " THEN "_" ELSE reg.nombre_productor.s[i]]

\* C7 as stated: once the archive step of a record file handed to
\* procesar_registro is over, the file is in trash/<producer name>.
C7_AlwaysMoved ==
    pc = "pm_pausa" =>
        /\ ubic[Archivo] = DirTrash(ParticionEsperada(registro))
        /\ ParticionEsperada(registro) \in trashDirs

\* C7 amended: once procesar_registro has returned for a record file, whatever
\* it returned, the file is moved to trash/<producer name with underscores for
\* spaces>, the partition being created when absent, unless shutil.move
\* raises: then ERR-15 is logged and the file stays where it was; and when
\* os.makedirs raises the run ends with the file where it was.
C7_MovedOrLogged ==
    /\ pc \in {"pm_mover", "pm_pausa"} => ParticionEsperada(registro) \in trashDirs
    /\ pc = "pm_mover" => ubic[Archivo] = Origen(Archivo)
    /\ pc = "pm_pausa" =>
          \/ /\ logs["ERR-15"] = 0
             /\ ubic[Archivo] = DirTrash(ParticionEsperada(registro))
          \/ /\ logs["ERR-15"] = 1
             /\ ubic[Archivo] = Origen(Archivo)
    /\ (pc = "excepcion" /\ resultado # "raise") => ubic[Archivo] = Origen(Archivo)

\* C7 witness: a record whose session returned None has been moved to the
\* partition P_1 of its producer "P 1".
C7_Witness ==
    /\ pc = "pm_pausa"
    /\ resultado = "None"
    /\ registro.nombre_productor = Str(<< "P", " ", "1" >>)
    /\ ubic[Archivo] = DirTrash(<< "P", "_", "1" >>)

\* C8: when the content of a record file fails to parse, the error is logged
\* and only that file is skipped: procesar_registro is not called, no browser
\* is acquired, nothing is moved, the counter is unchanged, and the loop goes
\* on with the rest of the listing.
C8_ParseSkip ==
    [][ (pc = "pm_leer" /\ ~archivos[Archivo].parseable) =>
          /\ pc' = "pm_archivo"
          /\ logs'["ERR-14"] = logs["ERR-14"] + 1
          /\ UNCHANGED << invocados, vivos, handle, configureCalls, ubic, trashDirs,
                          registros_procesados, archivos_json, iArchivo, carpetas,
                          iCarpeta >> ]_vars

\* C8 witness: after a file that failed to parse, the next file of the same
\* listing is in its session.
C8_Witness ==
    /\ pc = "pr_configure"
    /\ iArchivo = 2
    /\ archivos_json[1] \in fallosParse
    /\ registros_procesados = 0

\* C9: no call of procesar_registro ends with an exception that reaches the
\* batch loop.
C9_NeverPropagates == resultado # "raise"

\* C10 as stated: once the protocol has exhausted its attempts (ERR-01), the
\* record is aborted: no further attempt, procesar_registro returns None.
C10_InnerExhaustionAborts ==
    logs["ERR-01"] >= 1 =>
        /\ pc \in {"pr_finally", "pm_archivar"}
        /\ retorno = "None"

\* C10 amended: when the protocol exhausts its attempts it raises, the wrapper
\* loop of procesar_registro logs WARN-03 and calls the protocol again; the
\* record is aborted with None only when the protocol has been exhausted in
\* every attempt of the wrapper loop.
C10_WrapperRetries ==
    /\ logs["ERR-01"] = logs["WARN-03"]
    /\ logs["ERR-01"] = llamadas["auth"] - exitos["auth"]
    /\ llamadas["cert"] = logs["ERR-01"] * TopeCert + llamadasCert
    /\ logs["ERR-06"] = 1 <=> logs["ERR-01"] = TopeAuth
    /\ logs["ERR-01"] \in 1..(TopeAuth - 1) =>
          \/ pc = "pr_auth" /\ intento = logs["ERR-01"] + 1
          \/ exitos["auth"] = 1 /\ kExito["auth"] = logs["ERR-01"] + 1
    /\ logs["ERR-06"] = 1 =>
          /\ pc \in {"pr_finally", "pm_archivar"}
          /\ retorno = "None"
          /\ Retornado => resultado = "None"

\* C10 witness: the protocol was exhausted once and the second call of it by
\* the wrapper loop succeeded.
C10_Witness ==
    /\ logs["ERR-01"] = 1
    /\ exitos["auth"] = 1
    /\ kExito["auth"] = 2
    /\ pc = "pr_reabrir"

\* The protocol is running: paso is the call of the current attempt that
\* comes next, the calls before it have returned in this attempt.
EnProtocolo == pc = "pr_auth"

\* C11: every attempt of the protocol makes its four calls in the order of
\* Pasos; a call is made only after the calls before it returned in the same
\* attempt; after a call raises, the next attempt starts again at the first
\* call; and the protocol returns only when the four calls of one attempt
\* have returned.
C11_FourStepsInOrder ==
    [][ EnProtocolo =>
          /\ paso \in 1..Len(Pasos)
          /\ \/ /\ pc' = "pr_auth"
                /\ paso < Len(Pasos)
                /\ paso' = paso + 1
                /\ intentoCert' = intentoCert /\ intento' = intento
                /\ llamadas'["cert"] = En("auth", llamadas)["cert"]
             \/ /\ pc' = "pr_auth"
                /\ paso' = 1
                /\ \/ intentoCert' = intentoCert + 1 /\ intento' = intento
                   \/ intentoCert' = 1 /\ intento' = intento + 1
                /\ logs'["WARN-01"] = En("auth", logs)["WARN-01"] + 1
                /\ exitos'["cert"] = 0
             \/ /\ pc' = "pr_reabrir"
                /\ paso = Len(Pasos)
                /\ exitos'["cert"] = 1
                /\ logs'["WARN-01"] = En("auth", logs)["WARN-01"]
             \/ /\ pc' = "pr_finally"
                /\ exitos'["cert"] = 0
                /\ logs'["ERR-01"] = En("auth", logs)["ERR-01"] + 1 ]_vars

\* C11 witness: the protocol returned in its second attempt, after one
\* attempt in which a call raised.
C11_Witness ==
    /\ pc = "pr_reabrir"
    /\ exitos["cert"] = 1
    /\ kExito["cert"] = 2
    /\ kExito["auth"] = 1
    /\ logs["WARN-01"] = 1

\* The stages of procesar_registro before the browser is closed, in order.
Orden == << "configure", "open", "auth", "reopen", "setup", "snapshot", "click", "poll" >>
\* The stages in es are the first stages of Orden, each once and in that
\* order, with the closing of the browser after them when it is there.
EnOrden(es) ==
    \A i \in DOMAIN es :
        IF es[i] = "quit" THEN i = Len(es)
        ELSE i <= Len(Orden) /\ es[i] = Orden[i]
\* What holds when stage e is about to start.
Previa(e) ==
    IF e = "configure" THEN pc = "pr_configure" /\ handle = None
    ELSE IF e = "open" THEN pc = "pr_abrir" /\ driver # None /\ driver \in vivos
    ELSE IF e = "auth" THEN pc = "pr_auth" /\ exitos["open"] = 1
    ELSE IF e = "reopen" THEN pc = "pr_reabrir" /\ exitos["auth"] = 1 /\ exitos["cert"] = 1
    ELSE IF e = "setup" THEN pc = "pr_setup" /\ exitos["reopen"] = 1
    ELSE IF e = "snapshot" THEN pc = "dd_snapshot"
    ELSE IF e = "click" THEN pc = "dd_click"
    ELSE IF e = "poll" THEN pc = "dd_poll" /\ logs["ERR-02"] = 0
    ELSE pc \in {"dd_quit", "pr_finally"} /\ driver \in vivos

PosEtapa(e) == IF Entro(e) THEN CHOOSE i \in DOMAIN etapas : etapas[i] = e ELSE 0

\* C13: descargar_documentos closes the browser right after the click on the
\* PDF links: driver.quit() is called before wait_for_new_download starts, so
\* the wait runs with no live browser.
C13_QuitBeforeWait ==
    /\ pc = "dd_poll" => (quitCalls = 1 /\ driver \notin vivos)
    /\ (Entro("poll") /\ Entro("quit")) => PosEtapa("quit") < PosEtapa("poll")

\* C14: when the click on the PDF links raises, the wait raises, or fewer
\* files than expected appear, the failure is logged, no exception leaves
\* descargar_documentos or procesar_registro, and procesar_registro returns
\* the list of new files, which may be empty or partial, and not None.
C14_SoftFailure ==
    Entro("click") =>
        /\ pc \in {"dd_poll", "dd_quit", "pm_archivar"}
        /\ resultado # "raise"
        /\ archivos_descargados \in 0..numDownloads
        /\ logs["ERR-02"] + logs["INFO-05"] <= 1
        /\ logs["ERR-02"] = 1 => archivos_descargados = 0
        /\ pc \in {"dd_quit", "pm_archivar"} => logs["ERR-02"] + logs["INFO-05"] = 1
        /\ Retornado => (resultado = "lista" /\ retorno = "lista" /\ quitCalls = 1)

\* C14 witness: procesar_registro returned the empty list after
\* wait_for_new_download raised.
C14_Witness ==
    /\ Retornado
    /\ Entro("poll")
    /\ logs["ERR-02"] = 1
    /\ resultado = "lista"
    /\ archivos_descargados = 0

\* The number of places of the text u where the text x occurs.
Ocurrencias(x, u) ==
    Cardinality({ i \in 1..(Len(u) - Len(x) + 1) : SubSeq(u, i, i + Len(x) - 1) = x })
Contiene(u, x) == Ocurrencias(x, u) >= 1
EmpiezaCon(u, x) == Len(u) >= Len(x) /\ SubSeq(u, 1, Len(x)) = x
TerminaEn(u, x) == Len(u) >= Len(x) /\ SubSeq(u, Len(u) - Len(x) + 1, Len(u)) = x
\* The characters of a text of single characters.
Letras(x) == { x[i] : i \in DOMAIN x }
\* The arguments of the call of get_linkMiteco that returned linkMiteco.
CaseId == argumentos[1]
ProducerId == argumentos[2]
RepId == argumentos[3]
\* The URL has the five parameters with the identifiers, the fixed
\* parameters as they are written in the source, and the suffix.
Parametros ==
    /\ EmpiezaCon(linkMiteco,
                  << "https://sede.miteco.gob.es/portal/site/seMITECO/area_personal",
                     "?btnDetalleProc=btnDetalleProc", "&pagina=", "1", "&idExpediente=" >>)
    /\ Contiene(linkMiteco, << "&idExpediente=" >> \o CaseId \o << "&idProcedimiento=" >>)
    /\ Contiene(linkMiteco, << "&regInicial=" >> \o CaseId \o << "&nifTitular=" >>)
    /\ Contiene(linkMiteco, << "&idDocIdentificativo=" >> \o ProducerId
                              \o << "&idDocRepresentante=" >>)
    /\ TerminaEn(linkMiteco, << "&nifTitular=" >> \o ProducerId
                               \o << "&numPagSolSelec=", "1", "0", "#no-back-button" >>)
    /\ Contiene(linkMiteco, << "&idDocRepresentante=" >> \o RepId
                              \o << "&idEstadoSeleccionado=-", "1",
                                    "&idTipoProcSeleccionado=EN+REPRESENTACION+(REA)",
                                    "&regInicial=" >>)
    /\ Contiene(linkMiteco, << "&idProcedimiento=", "7", "3", "6",
                               "&idSubOrganoResp=", "1", "1", "&idDocIdentificativo=" >>)
\* The digits of the fixed parameters.
DigitosFijos == {"0", "1", "3", "6", "7"}
\* No character of the identifier x is in the fixed text or in the
\* identifiers y and z.
Ajeno(x, y, z) == Letras(x) \cap (DigitosFijos \cup Letras(y) \cup Letras(z)) = {}

\* C15 as stated: the URL returned for a triple of non-empty identifiers has
\* the five parameters, the fixed parameters and the suffix, and in it
\* case_id occurs exactly twice, producer_id exactly twice and rep_id
\* exactly once.
C15_ExactOccurrences ==
    llamadasLink >= 1 =>
        /\ Parametros
        /\ Ocurrencias(CaseId, linkMiteco) = 2
        /\ Ocurrencias(ProducerId, linkMiteco) = 2
        /\ Ocurrencias(RepId, linkMiteco) = 1

\* C15 amended: the URL returned for a triple of non-empty identifiers has
\* the five parameters, the fixed parameters and the suffix;
\* case_id and producer_id occur at least twice and rep_id at least once,
\* and exactly so often when the identifier shares no character with the
\* fixed text or with the other two identifiers.
C15_Substituted ==
    llamadasLink >= 1 =>
        /\ Parametros
        /\ Ocurrencias(CaseId, linkMiteco) >= 2
        /\ Ocurrencias(ProducerId, linkMiteco) >= 2
        /\ Ocurrencias(RepId, linkMiteco) >= 1
        /\ Ajeno(CaseId, ProducerId, RepId) => Ocurrencias(CaseId, linkMiteco) = 2
        /\ Ajeno(ProducerId, CaseId, RepId) => Ocurrencias(ProducerId, linkMiteco) = 2
        /\ Ajeno(RepId, CaseId, ProducerId) => Ocurrencias(RepId, linkMiteco) = 1

\* C15 witness: a URL was returned for a producer who is the representative
\* too, with a case identifier of its own.
C15_Witness ==
    /\ llamadasLink >= 1
    /\ CaseId = << "X", "X" >>
    /\ ProducerId = << "B" >>
    /\ RepId = << "B" >>
    /\ Ocurrencias(CaseId, linkMiteco) = 2
    /\ Ocurrencias(RepId, linkMiteco) = 3

\* A step is a call of get_linkMiteco.
EsLlamadaLink == llamadasLink' # llamadasLink

\* C16 as stated: get_linkMiteco is pure: a call with the same arguments
\* returns the same URL whatever happened since the call before, and changes
\* nothing besides its return value: no file, no configuration, no line in
\* the log.
C16_Pure ==
    [][ EsLlamadaLink =>
          /\ llamadasLink >= 1 => linkMiteco' = linkMiteco
          /\ UNCHANGED << resto, argumentos, info, lineasInfo01 >> ]_vars

\* C16 amended: a call of get_linkMiteco with the same arguments returns the
\* same URL whatever happened since the call before, and changes no file and
\* no configuration; it writes one line, INFO-01 with the URL, to the log.
C16_PureButLog ==
    [][ EsLlamadaLink =>
          /\ llamadasLink >= 1 => linkMiteco' = linkMiteco
          /\ previo' = linkMiteco
          /\ lineasInfo01' = lineasInfo01 + 1
          /\ UNCHANGED << resto, argumentos, info >> ]_vars

\* C16 witness: two calls with the same arguments returned the same URL and
\* wrote two lines to the log.
C16_Witness ==
    /\ llamadasLink = 2
    /\ previo = linkMiteco
    /\ linkMiteco # << >>
    /\ lineasInfo01 = 2

\* The file f is in a partition of trash.
Archivado(f) == ubic[f].raiz = "trash"

\* C17: when the partition of a record already holds a file with the name of
\* the record file being archived, the archive step does not replace the
\* file that is there: a file that is archived stays archived.
C17_NoSilentOverwrite ==
    [][ \A g \in DOMAIN ubic : Archivado(g) => ubic'[g] = ubic[g] ]_vars

\* The archive step of a record file is in progress.
Reubicando == pc \in {"pm_archivar", "pm_mover"}

\* C18: when the relocation of a processed record file fails, in os.makedirs
\* or in shutil.move, the failure is logged, the file stays where it was and
\* the batch goes on with the pause and the next file.
C18_RelocationFailureContinues ==
    [][ Reubicando =>
          \/ pc' = "pm_mover" /\ ubic' = ubic
          \/ pc' = "pm_pausa" /\ ubic'[Archivo] = Destino
          \/ /\ pc' = "pm_pausa"
             /\ logs'["ERR-15"] = 1
             /\ ubic' = ubic
             /\ ubic[Archivo] = Origen(Archivo) ]_vars

\* C19: no record file is deleted or altered: every file of the run is
\* either where it was at the start or in the archive, so the number of files
\* over the containers and the archive is the one of the start.
C19_FilesConserved ==
    /\ \A f \in DOMAIN archivos : ubic[f] = Origen(f) \/ Archivado(f)
    /\ Cardinality({ f \in DOMAIN archivos : ubic[f] # Perdido }) = Len(archivos)

\* The run began with no output directory or with no container in it.
SinEntrada == ~existeOutput \/ SoloDirs(entradas) = << >>

\* C20: when the output directory does not exist or holds no container
\* directory, procesar_multiple_regages logs one error and returns: no file
\* is parsed, no browser is acquired, nothing is created or moved.
C20_FatalPrecondition ==
    /\ SinEntrada =>
          /\ pc \in {"pm_inicio", "fin"}
          /\ pc = "fin" => logs = [SinLogs EXCEPT ![IF existeOutput THEN "ERR-13"
                                                                   ELSE "ERR-12"] = 1]
          /\ invocados = << >>
          /\ fallosParse = {}
          /\ handle = None /\ vivos = {} /\ configureCalls = 0
          /\ trashDirs = {}
          /\ \A f \in DOMAIN archivos : ubic[f] = Origen(f)
          /\ registros_procesados = 0
    /\ (logs["ERR-12"] + logs["ERR-13"] >= 1) => (SinEntrada /\ pc = "fin")

\* C20 witness: the run ended with ERR-13 on an output directory whose only
\* entry is not a directory.
C20_Witness ==
    /\ pc = "fin"
    /\ existeOutput
    /\ Len(entradas) = 1
    /\ logs["ERR-13"] = 1

\* The place of the container c in the listing of the output directory.
PosCarpeta(c) == CHOOSE k \in DOMAIN carpetas : carpetas[k] = c
\* The files of the listing of the current container that the loop is done
\* with or has handed to procesar_registro.
Tomados == SubSeq(archivos_json, 1, IF pc = "pm_leer" THEN iArchivo - 1 ELSE iArchivo)
\* The files handed to procesar_registro are in the order of the listings:
\* containers in the order of carpetas, and the files of the current
\* container in the order of archivos_json, each file once.
EnOrdenDeListado ==
    /\ \A i, j \in DOMAIN invocados :
          i < j => /\ invocados[i] # invocados[j]
                   /\ PosCarpeta(archivos[invocados[i]].carpeta)
                        <= PosCarpeta(archivos[invocados[j]].carpeta)
    /\ iCarpeta >= 1 =>
          SelectSeq(invocados, LAMBDA f : archivos[f].carpeta = Carpeta)
            = SelectSeq(Tomados, LAMBDA f : f \notin fallosParse)

\* C21: the record files are handed to procesar_registro one at a time in
\* the order of the listings, and a session starts only when the session
\* before it has returned, its archive step has been attempted and the
\* pause between records has been made.
C21_Serialized ==
    [][ /\ EnOrdenDeListado'
        /\ invocados' # invocados =>
              /\ pc = "pm_leer"
              /\ invocados' = Append(invocados, Archivo)
              /\ vivos = {}
              /\ registros_procesados = Len(invocados)
              /\ pausas = Len(invocados)
        /\ pausas' # pausas =>
              /\ pc = "pm_pausa"
              /\ pausas' = pausas + 1
              /\ pausas' = Len(invocados)
        /\ (pc' = "pm_pausa" /\ pc # "pm_pausa") =>
              /\ pc = "pm_mover"
              /\ ubic'[Archivo] = Destino \/ logs'["ERR-15"] = 1 ]_vars

\* C21 witness: the second file of a listing is in its session after the
\* first one, in the order of a listing that is not the order of the names.
C21_Witness ==
    /\ pc = "pr_configure"
    /\ Len(archivos_json) = 2
    /\ archivos[archivos_json[1]].nombre > archivos[archivos_json[2]].nombre
    /\ invocados = archivos_json
    /\ pausas = 1

\* C22: the authentication stage gives a record up only after as many failed
\* runs of the four calls as the ceiling of the loop of procesar_registro
\* times the ceiling of the protocol, every failed call of the protocol being
\* as many failed runs as the ceiling of the protocol; one run of the four
\* calls that succeeds ends both loops at once.
C22_ProductCeiling ==
    /\ llamadas["cert"] <= TopeAuth * TopeCert
    /\ logs["ERR-06"] = 1 <=> (llamadas["cert"] = TopeAuth * TopeCert /\ exitos["cert"] = 0)
    /\ logs["ERR-06"] = 1 => (llamadas["auth"] = TopeAuth /\ retorno = "None")
    /\ llamadas["cert"] - llamadasCert = (llamadas["auth"] - exitos["auth"]) * TopeCert
    /\ exitos["cert"] <= 1
    /\ exitos["cert"] = exitos["auth"]
    /\ exitos["cert"] = 1 =>
          /\ pc = "pr_reabrir"
          /\ llamadas["cert"] = (kExito["auth"] - 1) * TopeCert + kExito["cert"]
          /\ llamadas["auth"] = kExito["auth"]
          /\ logs["ERR-06"] = 0

\* C22 witness: procesar_registro returned None after the protocol failed in
\* every attempt of every call of the loop of procesar_registro.
C22_Witness ==
    /\ Retornado
    /\ logs["ERR-06"] = 1
    /\ logs["WARN-01"] = TopeAuth * TopeCert
    /\ llamadas["cert"] = TopeAuth * TopeCert
    /\ resultado = "None"

\* The files the loop has dealt with: handed to procesar_registro, or skipped
\* because their content did not parse.
Tratados == Len(invocados) + Cardinality(fallosParse)

\* What is left of the authentication stage: the calls of the protocol left
\* to the loop of procesar_registro, the attempts left to the protocol, the
\* calls left to the attempt.
RestoAuth == ((TopeAuth - intento) * TopeCert + (TopeCert - intentoCert)) * Len(Pasos)
               + (Len(Pasos) - paso)
TotalAuth == TopeAuth * TopeCert * Len(Pasos)
\* What is left of the handling of the current file, by position.
RestoArchivo ==
    IF pc = "pm_carpeta" THEN 1
    ELSE IF pc = "pm_archivo" THEN 2
    ELSE IF pc = "pm_pausa" THEN 3
    ELSE IF pc = "pm_mover" THEN 4
    ELSE IF pc = "pm_archivar" THEN 5
    ELSE IF pc = "pr_finally" THEN 6
    ELSE IF pc = "dd_quit" THEN 7
    ELSE IF pc = "dd_poll" THEN 8
    ELSE IF pc = "dd_click" THEN 9
    ELSE IF pc = "dd_snapshot" THEN 10
    ELSE IF pc = "pr_setup" THEN 11
    ELSE IF pc = "pr_reabrir" THEN 12 + (TopeAbrir - intento)
    ELSE IF pc = "pr_auth" THEN 12 + TopeAbrir + RestoAuth
    ELSE IF pc = "pr_abrir" THEN 13 + TopeAbrir + TotalAuth + (TopeAbrir - intento)
    ELSE IF pc = "pr_configure" THEN 13 + 2 * TopeAbrir + TotalAuth
    ELSE IF pc = "pr_campos" THEN 14 + 2 * TopeAbrir + TotalAuth
    ELSE 15 + 2 * TopeAbrir + TotalAuth
PorArchivo == 16 + 2 * TopeAbrir + TotalAuth
PorCarpeta == PorArchivo * (Len(archivos) + 2)
\* What is left of the run: the containers and the files of the listings not
\* yet taken weigh more than anything left of the current file.
Rango ==
    IF Terminado THEN 0
    ELSE IF pc = "pm_inicio" THEN PorCarpeta * (Len(entradas) + 1)
    ELSE PorCarpeta * (Len(carpetas) - iCarpeta)
           + PorArchivo * (Len(archivos_json) - iArchivo)
           + RestoArchivo

\* C23: when every call of a collaborator returns or raises, every call of
\* procesar_registro returns or raises and procesar_multiple_regages ends:
\* every step leaves less to do, a step can be taken until the run has
\* ended, and no file is dealt with more than once.
C23_Terminates ==
    /\ [][Rango' < Rango]_vars
    /\ [](/\ Rango >= 0
          /\ ~Terminado => ENABLED Next
          /\ \A i, j \in DOMAIN invocados : i # j => invocados[i] # invocados[j]
          /\ \A i \in DOMAIN invocados : invocados[i] \notin fallosParse
          /\ Tratados <= Len(archivos))

\* C23 witness: the run has ended after two records whose sessions went
\* through the exhaustion of a retry loop and through a full download.
C23_Witness ==
    /\ pc = "fin"
    /\ Len(invocados) = 2
    /\ pausas = 2
    /\ \A f \in DOMAIN archivos : Archivado(f)

\* The step taken from here calls an operation of the browser on driver:
\* abrir_web, a call of the protocol, setup_descarga, clickar_todos_los_links.
OperaNavegador == pc \in {"pr_abrir", "pr_auth", "pr_reabrir", "pr_setup", "dd_click"}

\* C24: no operation of the browser is called on a handle after
\* driver.quit() was called on it; once descargar_documentos has called
\* quit, procesar_registro drops the handle and its finally block calls
\* nothing on it.
C24_NoUseAfterQuit ==
    [][ /\ OperaNavegador => (driver # None /\ driver \in vivos /\ quitCalls = 0)
        /\ quitCalls' > quitCalls =>
              /\ quitCalls = 0
              /\ driver \in vivos
              /\ driver \notin vivos'
              /\ pc' = "pm_archivar"
        /\ (pc = "dd_quit" /\ pc' # pc) => (driver' = None /\ quitCalls' = 1)
        /\ (pc = "pr_finally" /\ pc' # pc) => (quitCalls = 0 /\ quitCalls' = 1) ]_vars

\* C24 witness: descargar_documentos has closed the browser after a click
\* that went through, and procesar_registro returned holding no handle.
C24_Witness ==
    /\ Retornado
    /\ Entro("click") /\ Entro("quit")
    /\ handle # None /\ handle \notin vivos
    /\ driver = None
    /\ quitCalls = 1

====
